---- MODULE Spec2Model ----
(***************************************************************************)
(* Track feature derivation of process_map_data.py: douglas_peucker, the   *)
(* per-track body of create_data (simplify, select surviving points,       *)
(* cumulative distance, smoothed elevation, ascent/descent, feature), and  *)
(* create_data around it: the collection loaded, the new files listed,     *)
(* get_address_from_locationiq, the sort, the clusters, the colours and    *)
(* the write.                                                              *)
(*                                                                         *)
(* Numbers.  The code computes in binary floating point; the model         *)
(* computes the same expressions exactly, over integers:                   *)
(*   - latitude/longitude are counted in grid units of 0.0001 degree, so   *)
(*     the tolerance epsilon=0.0001 of create_data is 1 unit;              *)
(*   - a perpendicular distance d is carried as the exact fraction         *)
(*     d^2 = num/den, and d > e is decided as num > e^2 * den;             *)
(*   - elevation is counted in units of 1/ElevScale metre;                 *)
(*   - a smoothed elevation is carried multiplied by 3*5*7, so that the    *)
(*     means over 3, 5 and 7 samples are exact;                            *)
(*   - a timestamp is counted in ticks of 1/TicksPerSecond second;         *)
(*   - a file name is the pair of its stem and its extension, a track name *)
(*     a number that stands for a date stamp of fixed width.               *)
(* Sequences are 1-based: Python index idx is position idx + 1.            *)
(*                                                                         *)
(* Specifications.                                                         *)
(*   Spec          the loop body on every track of up to MaxRaw samples    *)
(*                 on a small grid, with the tolerance of create_data;     *)
(*   SpecSimplify  douglas_peucker on every such point sequence and every  *)
(*                 tolerance 0..MaxEps, applied once, applied again to its *)
(*                 own result, and applied with a larger tolerance;        *)
(*   SpecMetrics   the loop body on tracks of up to MaxPoints samples that *)
(*                 all survive, for every elevation series drawn;          *)
(*   SpecRun       create_data from its first line to its return or to the *)
(*                 exception that ends it, and once more after a return,   *)
(*                 for the collections and input directories drawn, every  *)
(*                 outcome of every address request and every labelling    *)
(*                 KMeans can return.                                      *)
(***************************************************************************)
EXTENDS Integers, Sequences, FiniteSets, TLC

VARIABLES
    pc,                    \* the statement of create_data's loop body reached
    epsilon,               \* tolerance handed to douglas_peucker
    raw_points,            \* parsed samples: latitude, longitude, elevation, time
    simplified_coords,     \* douglas_peucker's result
    track_points,          \* the samples that survive into the metrics stage
    cumulative_distances,  \* running distance (miles) per surviving point
    line_coords,           \* geometry: (lon, lat, elevation, cumulative distance)
    total_distance_km,
    total_distance_mi,
    sevenpoint,            \* smoothed elevations (times 3*5*7)
    total_ascent_m,        \* accumulated positive smoothed differences
    total_descent_m,       \* accumulated negative smoothed differences
    feature,               \* the assembled feature's geometry and properties
    main_geojson,          \* the GeoJSON file on disk
    orig_gpx_files,        \* the input directory: files in os.listdir order
    geojson_data,          \* the features as loaded at line 112 of this run
    features,              \* the features list
    file_list,             \* the new files, in processing order
    processed_count,       \* files of file_list processed so far
    attempt,               \* get_address_from_locationiq's loop variable
    calls,                 \* requests, waits and prompts of the current lookup
    place_name,            \* what the current lookup returned
    num_clusters,
    kmeans,                \* the fits made so far with random_state=0
    exception,             \* the exception that ended the run, if any
    run                    \* 1 in the first run of create_data, 2 in the second

track_vars == << pc, epsilon, raw_points, simplified_coords, track_points,
                 cumulative_distances, line_coords, total_distance_km,
                 total_distance_mi, sevenpoint, total_ascent_m,
                 total_descent_m, feature >>

lookup_vars == << attempt, calls, place_name >>

run_vars == << main_geojson, orig_gpx_files, geojson_data, features,
               file_list, processed_count, num_clusters, kmeans, exception,
               run >>

vars == << track_vars, lookup_vars, run_vars >>

----------------------------------------------------------------------------
(* Bounds of the model.                                                    *)

MaxLat == 2
MaxRaw == 4
MaxEps == 2
MaxPoints == 9
ElevScale == 8

\* epsilon=0.0001 at the call of douglas_peucker, in grid units
Epsilon == 1

\* the coordinates of the drawn samples: latitudes 0..MaxLat on two
\* neighbouring longitudes
Longitudes == {0, 1}
Grid == (0..MaxLat) \X Longitudes

\* elevation change per sample of the tracks drawn for the whole loop body
TrackSlopes == {-3, 1}

\* elevation series drawn for the metrics stage: the first sample at
\* BaseElev, each further one a step down, level or a step up, the step a
\* unit (1/ElevScale metre) or a metre
BaseElev == 20
ElevDeltas == {-1, 0, 1}
ElevSteps == {1, ElevScale}

\* the run of create_data: at most MaxFiles files in the input directory and
\* MaxLoaded features in the loaded collection when there are files to
\* process, and collections of up to MaxFeatures features otherwise
MaxFiles == 2
MaxLoaded == 2
MaxFeatures == 12

\* track names: date stamps of one fixed width, so that their order as
\* strings is the order of these numbers
Names == {1, 2, 3}

\* timestamps are counted in ticks of 1/TicksPerSecond second
TicksPerSecond == 2

\* timedelta.seconds counts within a day
SecondsPerDay == 86400

\* the tracks of the run have up to MaxOuting samples, a gap of Gaps ticks
\* apart: one tick, or half a day and one tick
MaxOuting == 3
Gaps == << 1, (SecondsPerDay \div 2) * TicksPerSecond + 1 >>

\* lines 362-374
colours == << "darkred", "green", "red", "blue", "gray", "purple", "black",
              "cadetblue", "darkgreen", "orange", "darkblue" >>

NoPoints == << >>
NoFeature == [geometry |-> << >>, ascent |-> 0, descent |-> 0]

----------------------------------------------------------------------------
(* Helpers.                                                                *)

Abs(x) == IF x < 0 THEN -x ELSE x

Range(s) == {s[i] : i \in 1..Len(s)}

\* [(p.latitude, p.longitude) for p in points]
Coords(points) == [i \in 1..Len(points) |-> << points[i].latitude, points[i].longitude >>]

RECURSIVE SumTo(_, _)
SumTo(f, n) == IF n = 0 THEN 0 ELSE f[n] + SumTo(f, n - 1)

----------------------------------------------------------------------------
(* douglas_peucker (lines 65-97).                                          *)

\* A distance is the exact fraction num/den of its square.
Zero == [num |-> 0, den |-> 1]

\* line 87 with d < dmax for d > dmax
Farther_less(d, dmax) == d.num * dmax.den < dmax.num * d.den

\* d > dmax for two distances (both are >= 0, so their squares compare alike)
Farther(d, dmax) == d.num * dmax.den > dmax.num * d.den

\* dmax > epsilon, for a tolerance epsilon >= 0 in grid units
Exceeds(dmax, eps) == dmax.num > eps * eps * dmax.den

\* perpendicular_distance with a wrong sign in the numerator's last term
perpendicular_distance_sign(pt, line_start, line_end) ==
    IF line_start = line_end
    THEN [num |-> (pt[1] - line_start[1]) * (pt[1] - line_start[1])
                  + (pt[2] - line_start[2]) * (pt[2] - line_start[2]),
          den |-> 1]
    ELSE LET x0 == pt[1]
             y0 == pt[2]
             x1 == line_start[1]
             y1 == line_start[2]
             x2 == line_end[1]
             y2 == line_end[2]
             num == Abs((y2 - y1) * x0 - (x2 - x1) * y0 + x2 * y1 + y2 * x1)
             den2 == (y2 - y1) * (y2 - y1) + (x2 - x1) * (x2 - x1)
         IN  [num |-> num * num, den |-> den2]

\* lines 68-78: the distance from pt to the line through line_start and
\* line_end; to line_start when the two coincide
perpendicular_distance(pt, line_start, line_end) ==
    IF line_start = line_end
    THEN [num |-> (pt[1] - line_start[1]) * (pt[1] - line_start[1])
                  + (pt[2] - line_start[2]) * (pt[2] - line_start[2]),
          den |-> 1]
    ELSE LET x0 == pt[1]
             y0 == pt[2]
             x1 == line_start[1]
             y1 == line_start[2]
             x2 == line_end[1]
             y2 == line_end[2]
             num == Abs((y2 - y1) * x0 - (x2 - x1) * y0 + x2 * y1 - y2 * x1)
             den2 == (y2 - y1) * (y2 - y1) + (x2 - x1) * (x2 - x1)
         IN  [num |-> num * num, den |-> den2]

\* lines 83-89: the loop over the interior points, from position i on, with
\* the farthest point found so far (index) and its distance (dmax)
RECURSIVE farthest(_, _, _, _)
farthest(points, i, index, dmax) ==
    IF i > Len(points) - 1
    THEN [index |-> index, dmax |-> dmax]
    ELSE LET d == perpendicular_distance(points[i], points[1], points[Len(points)])
         IN  IF Farther(d, dmax)
             THEN farthest(points, i + 1, i, d)
             ELSE farthest(points, i + 1, index, dmax)

\* rec1 + rec2: the boundary point kept twice
join_twice(rec1, rec2) == rec1 \o rec2

\* rec1[:-1] + rec2[:-1]: the last point dropped as well
join_short(rec1, rec2) == SubSeq(rec1, 1, Len(rec1) - 1) \o SubSeq(rec2, 1, Len(rec2) - 1)

\* line 93: rec1[:-1] + rec2
join(rec1, rec2) == SubSeq(rec1, 1, Len(rec1) - 1) \o rec2

\* line 95: [points[0], points[-1]]
collapse(points) == << points[1], points[Len(points)] >>

RECURSIVE simplify(_, _)

\* the two branches of line 90 exchanged, the split range returned whole
simplify_swapped(points, eps) ==
    LET far == farthest(points, 2, 1, Zero)
    IN  IF Exceeds(far.dmax, eps)
        THEN collapse(points)
        ELSE points

\* the loop of line 85 started at range(2, ...): the first interior point
\* is never measured
simplify_skip(points, eps) ==
    LET far == farthest(points, 3, 1, Zero)
    IN  IF Exceeds(far.dmax, eps)
        THEN join(simplify(SubSeq(points, 1, far.index), eps),
                  simplify(SubSeq(points, far.index, Len(points)), eps))
        ELSE collapse(points)

\* lines 80-95
simplify(points, eps) ==
    LET far == farthest(points, 2, 1, Zero)
    IN  IF Exceeds(far.dmax, eps)
        THEN join(simplify(SubSeq(points, 1, far.index), eps),
                  simplify(SubSeq(points, far.index, Len(points)), eps))
        ELSE collapse(points)

\* line 97
douglas_peucker(points, eps) == simplify(points, eps)

----------------------------------------------------------------------------
(* The loop body of create_data, lines 157-343.                            *)

\* line 161 with the surviving samples rebuilt from the simplified
\* coordinates, their elevation and time read from the raw samples in turn
select_rebuilt(raw, simplified) ==
    [i \in 1..Len(simplified) |->
        LET p == raw[IF i <= Len(raw) THEN i ELSE Len(raw)]
        IN  [latitude |-> simplified[i][1], longitude |-> simplified[i][2],
             elevation |-> p.elevation, time |-> p.time]]

\* line 161: [p for p in raw_points if (p.latitude, p.longitude) in simplified_coords]
select(raw, simplified) ==
    LET kept(p) == << p.latitude, p.longitude >> \in Range(simplified)
    IN  SelectSeq(raw, kept)

\* geopy's distance.distance(coord1, coord2) is a library call: a geodesic
\* length, >= 0 and 0 between equal coordinates.  The model takes the grid
\* length |dlat| + |dlon| for it, and reads 5 miles for 8 km.
geodesic(coord1, coord2) == Abs(coord1[1] - coord2[1]) + Abs(coord1[2] - coord2[2])

\* lines 168-170
miles(points, i) ==
    5 * geodesic(<< points[i - 1].latitude, points[i - 1].longitude >>,
                 << points[i].latitude, points[i].longitude >>)

\* lines 183-186
km(points, i) ==
    8 * geodesic(<< points[i].latitude, points[i].longitude >>,
                 << points[i + 1].latitude, points[i + 1].longitude >>)

\* lines 165-172: total_distance after the sample at position n
RECURSIVE running_total(_, _)
running_total(points, n) ==
    IF n <= 1 THEN 0 ELSE running_total(points, n - 1) + miles(points, n)

\* lines 165-172 with the step's own distance appended, not the running total
cumulative_steps(points) ==
    [i \in 1..(IF Len(points) = 0 THEN 1 ELSE Len(points)) |->
        IF i = 1 THEN 0 ELSE miles(points, i)]

\* lines 165-172: [0.0], then the running total after every further sample
cumulative(points) ==
    [i \in 1..(IF Len(points) = 0 THEN 1 ELSE Len(points)) |->
        running_total(points, i)]

\* lines 181-186
RECURSIVE sum_km(_, _)
sum_km(points, n) == IF n <= 1 THEN 0 ELSE sum_km(points, n - 1) + km(points, n - 1)

\* lines 189-194
RECURSIVE sum_mi(_, _)
sum_mi(points, n) == IF n <= 1 THEN 0 ELSE sum_mi(points, n - 1) + miles(points, n)

\* lines 175-178
coords_of(points, distances) ==
    [i \in 1..Len(points) |->
        << points[i].longitude, points[i].latitude, points[i].elevation, distances[i] >>]

\* lines 203-230 with the last branch averaging 5 samples, as the one before
smoothed_five(points, i) ==
    LET idx == i - 1
        max_index == Len(points) - 1
        e(j) == points[j + 1].elevation
    IN  IF idx = 0 \/ idx = max_index
        THEN 105 * e(idx)
        ELSE IF idx = 1 \/ idx = max_index - 1
        THEN 35 * (e(idx) + e(idx - 1) + e(idx + 1))
        ELSE 21 * (e(idx) + e(idx - 1) + e(idx - 2) + e(idx + 1) + e(idx + 2))

\* lines 203-230: the smoothed elevation at position i (Python index i - 1),
\* times 3*5*7
smoothed(points, i) ==
    LET idx == i - 1
        max_index == Len(points) - 1
        e(j) == points[j + 1].elevation
    IN  IF idx = 0 \/ idx = max_index
        THEN 105 * e(idx)
        ELSE IF idx = 1 \/ idx = max_index - 1
        THEN 35 * (e(idx) + e(idx - 1) + e(idx + 1))
        ELSE IF idx = 2 \/ idx = max_index - 2
        THEN 21 * (e(idx) + e(idx - 1) + e(idx - 2) + e(idx + 1) + e(idx + 2))
        ELSE 15 * (e(idx) + e(idx - 1) + e(idx - 2) + e(idx - 3)
                   + e(idx + 1) + e(idx + 2) + e(idx + 3))

\* lines 198-230
seven_point(points) == [i \in 1..Len(points) |-> smoothed(points, i)]

\* lines 233-242: total_ascent_m after the entries up to position n
RECURSIVE ascent(_, _)
ascent(seven, n) ==
    IF n <= 1
    THEN 0
    ELSE LET elevation_change == seven[n] - seven[n - 1]
         IN  IF elevation_change > 0
             THEN ascent(seven, n - 1) + elevation_change
             ELSE ascent(seven, n - 1)

RECURSIVE descent(_, _)

\* lines 243-244 with total_descent_m -= elevation_change: the descent
\* counted as a positive amount
descent_magnitude(seven, n) ==
    IF n <= 1
    THEN 0
    ELSE LET elevation_change == seven[n] - seven[n - 1]
         IN  IF elevation_change < 0
             THEN descent(seven, n - 1) - elevation_change
             ELSE descent(seven, n - 1)

\* lines 234-244: total_descent_m after the entries up to position n
descent(seven, n) ==
    IF n <= 1
    THEN 0
    ELSE LET elevation_change == seven[n] - seven[n - 1]
         IN  IF elevation_change < 0
             THEN descent(seven, n - 1) + elevation_change
             ELSE descent(seven, n - 1)

\* one metre, in the unit of total_ascent_m and total_descent_m
Metre == 105 * ElevScale

\* math.floor in the place of int
int_floor(total) == total \div Metre

\* round in the place of int
int_round(total) ==
    IF total >= 0
    THEN (2 * total + Metre) \div (2 * Metre)
    ELSE -((Metre - 2 * total) \div (2 * Metre))

\* lines 331-332: int(total), which truncates toward zero
int(total) == IF total >= 0 THEN total \div Metre ELSE -((-total) \div Metre)

----------------------------------------------------------------------------
(* Actions: one per statement group of the loop body.                      *)

\* line 160 on an empty track: points[0] raises IndexError
SimplifyRaises ==
    /\ pc = "simplify"
    /\ Len(raw_points) = 0
    /\ pc' = "raised"
    /\ UNCHANGED << epsilon, raw_points, simplified_coords, track_points,
                    cumulative_distances, line_coords, total_distance_km,
                    total_distance_mi, sevenpoint, total_ascent_m,
                    total_descent_m, feature >>
    /\ UNCHANGED << lookup_vars, run_vars >>

\* line 160
Simplify ==
    /\ pc = "simplify"
    /\ Len(raw_points) > 0
    /\ simplified_coords' = douglas_peucker(Coords(raw_points), epsilon)
    /\ pc' = "select"
    /\ UNCHANGED << epsilon, raw_points, track_points, cumulative_distances,
                    line_coords, total_distance_km, total_distance_mi,
                    sevenpoint, total_ascent_m, total_descent_m, feature >>
    /\ UNCHANGED << lookup_vars, run_vars >>

\* line 161
Select ==
    /\ pc = "select"
    /\ track_points' = select(raw_points, simplified_coords)
    /\ pc' = "distances"
    /\ UNCHANGED << epsilon, raw_points, simplified_coords,
                    cumulative_distances, line_coords, total_distance_km,
                    total_distance_mi, sevenpoint, total_ascent_m,
                    total_descent_m, feature >>
    /\ UNCHANGED << lookup_vars, run_vars >>

\* lines 165-194
Distances ==
    /\ pc = "distances"
    /\ cumulative_distances' = cumulative(track_points)
    /\ line_coords' = coords_of(track_points, cumulative_distances')
    /\ total_distance_km' = sum_km(track_points, Len(track_points))
    /\ total_distance_mi' = sum_mi(track_points, Len(track_points))
    /\ pc' = "smooth"
    /\ UNCHANGED << epsilon, raw_points, simplified_coords, track_points,
                    sevenpoint, total_ascent_m, total_descent_m, feature >>
    /\ UNCHANGED << lookup_vars, run_vars >>

\* lines 198-230
Smooth ==
    /\ pc = "smooth"
    /\ sevenpoint' = seven_point(track_points)
    /\ pc' = "climb"
    /\ UNCHANGED << epsilon, raw_points, simplified_coords, track_points,
                    cumulative_distances, line_coords, total_distance_km,
                    total_distance_mi, total_ascent_m, total_descent_m,
                    feature >>
    /\ UNCHANGED << lookup_vars, run_vars >>

\* lines 232-244
Climb ==
    /\ pc = "climb"
    /\ total_ascent_m' = ascent(sevenpoint, Len(sevenpoint))
    /\ total_descent_m' = descent(sevenpoint, Len(sevenpoint))
    /\ pc' = "assemble"
    /\ UNCHANGED << epsilon, raw_points, simplified_coords, track_points,
                    cumulative_distances, line_coords, total_distance_km,
                    total_distance_mi, sevenpoint, feature >>
    /\ UNCHANGED << lookup_vars, run_vars >>

\* line 250: LineString of fewer than 2 coordinates raises
AssembleRaises ==
    /\ pc = "assemble"
    /\ Len(track_points) < 2
    /\ pc' = "raised"
    /\ UNCHANGED << epsilon, raw_points, simplified_coords, track_points,
                    cumulative_distances, line_coords, total_distance_km,
                    total_distance_mi, sevenpoint, total_ascent_m,
                    total_descent_m, feature >>
    /\ UNCHANGED << lookup_vars, run_vars >>

\* lines 246-343: the feature's geometry, ascent and descent
Assemble ==
    /\ pc = "assemble"
    /\ Len(track_points) >= 2
    /\ feature' = [geometry |-> line_coords,
                   ascent |-> int(total_ascent_m),
                   descent |-> int(total_descent_m)]
    /\ pc' = "assembled"
    /\ UNCHANGED << epsilon, raw_points, simplified_coords, track_points,
                    cumulative_distances, line_coords, total_distance_km,
                    total_distance_mi, sevenpoint, total_ascent_m,
                    total_descent_m >>
    /\ UNCHANGED << lookup_vars, run_vars >>

\* douglas_peucker applied to its own result, with the same tolerance
Resimplify ==
    /\ pc = "select"
    /\ simplified_coords' = douglas_peucker(simplified_coords, epsilon)
    /\ pc' = "resimplified"
    /\ UNCHANGED << epsilon, raw_points, track_points, cumulative_distances,
                    line_coords, total_distance_km, total_distance_mi,
                    sevenpoint, total_ascent_m, total_descent_m, feature >>
    /\ UNCHANGED << lookup_vars, run_vars >>

\* douglas_peucker applied to the same points with a larger tolerance
Coarsen ==
    /\ pc \in {"select", "coarsened"}
    /\ \E e \in (epsilon + 1)..MaxEps :
          /\ epsilon' = e
          /\ simplified_coords' = douglas_peucker(Coords(raw_points), e)
    /\ pc' = "coarsened"
    /\ UNCHANGED << raw_points, track_points, cumulative_distances,
                    line_coords, total_distance_km, total_distance_mi,
                    sevenpoint, total_ascent_m, total_descent_m, feature >>
    /\ UNCHANGED << lookup_vars, run_vars >>

----------------------------------------------------------------------------
(* create_data around the loop body: the files, the features list, the     *)
(* address lookup, the clustering and the colours.                         *)

\* A file name is its stem and its extension; a track's name is the stem.

\* filename[:-4]
stem(filename) == filename[1]

\* the name as it is, no ".gpx" added
gpx_missing(name) == << name, "" >>

\* line 136: name + ".gpx"
gpx(name) == << name, "gpx" >>

\* filename.endswith(".gpx")
endswith_gpx(filename) == filename[2] = "gpx"

\* os.listdir(input_dir)
listdir(dir) == [i \in 1..Len(dir) |-> dir[i].filename]

\* lines 150-159: the samples of the file named filename
gpx_data(dir, filename) ==
    (CHOOSE f \in Range(dir) : f.filename = filename).tracks

\* line 158 with the first segment alone: [gpx_data.tracks[0].segments[0]]
track_segments_first(tracks) ==
    IF tracks[1] = << >> THEN << >> ELSE << tracks[1][1] >>

\* line 158: [s for s in gpx_data.tracks[0].segments]
track_segments(tracks) == tracks[1]

\* line 159: [p for s in track_segments for p in s.points]
RECURSIVE points_of(_)
points_of(segments) ==
    IF segments = << >> THEN << >>
    ELSE Head(segments) \o points_of(Tail(segments))

\* lines 134-136
existing_track_list(fs) == [i \in 1..Len(fs) |-> gpx(fs[i].name)]

\* list(reversed(s))
reversed(s) == [i \in 1..Len(s) |-> s[Len(s) + 1 - i]]

\* lines 139-145 without the test of line 144: every .gpx file is new
new_files_unfiltered(listing, existing) ==
    reversed(SelectSeq(listing, endswith_gpx))

\* lines 139-145
new_files(listing, existing) ==
    LET new(filename) ==
            endswith_gpx(filename) /\ filename \notin Range(existing)
    IN  reversed(SelectSeq(listing, new))

\* line 295 without the day wrap: duration.total_seconds(), floored
seconds_total(start_time, end_time) ==
    (end_time - start_time) \div TicksPerSecond

\* lines 292-295: (end_time - start_time).seconds, the seconds field of a
\* timedelta, which counts within the day
seconds(start_time, end_time) ==
    ((end_time - start_time) \div TicksPerSecond) % SecondsPerDay

\* line 330: str(duration) of a timedelta of s < 86400 seconds, "H:MM:SS"
str(s) == << s \div 3600, (s % 3600) \div 60, s % 60 >>

\* lines 322-343: the feature of the file named filename
Feature(filename, assembled, points, place) ==
    [name |-> stem(filename),
     geometry |-> assembled.geometry,
     duration |-> str(seconds(points[1].time, points[Len(points)].time)),
     ascent |-> assembled.ascent,
     descent |-> assembled.descent,
     place_name |-> place]

----------------------------------------------------------------------------
(* get_address_from_locationiq (lines 31-63).                              *)

\* line 41
tries == 2

\* what a lookup returns: a string, None, or the exception it caught
None == [type |-> "NoneType"]
RequestException == [type |-> "RequestException"]
Str(sections) == [type |-> "str", sections |-> sections]

\* the display names a response carries: none, a place, a place on an
\* unclassified road
DisplayNames ==
    { << >>,
      << "Postbridge", "Dartmoor", "Devon", "England" >>,
      << "UCR", "Postbridge", "Dartmoor", "Devon", "England" >> }

\* lines 57-63
address(display_name) ==
    IF display_name = << >>
    THEN None
    ELSE IF display_name[1] = "UCR"
    THEN Str(SubSeq(display_name, 2, 4))
    ELSE Str(SubSeq(display_name, 1, 3))

\* lines 48-56 with the wait taken after every failed request
on_failure_wait(att) == [calls |-> << "sleep" >>, returns |-> FALSE]

\* lines 48-56: after a failed request, wait and go on (attempt 0), or
\* prompt and return the exception
on_failure(att) ==
    IF att = 0
    THEN [calls |-> << "sleep" >>, returns |-> FALSE]
    ELSE [calls |-> << "input" >>, returns |-> TRUE]

----------------------------------------------------------------------------
(* Sorting, clustering and colours (lines 352-408).                        *)

\* the key order of an ascending sort
precedes_ascending(a, b) == a.name <= b.name

\* line 353: a stays before b in sorted(..., reverse=True), a being before
\* b in the list
precedes(a, b) == a.name >= b.name

\* f put into the sorted list s, behind everything that precedes it
RECURSIVE insert(_, _)
insert(s, f) ==
    IF s = << >> THEN << f >>
    ELSE IF precedes(Head(s), f) THEN << Head(s) >> \o insert(Tail(s), f)
    ELSE << f >> \o s

\* line 353: sorted(features, key=name, reverse=True), a stable sort
RECURSIVE sorted(_)
sorted(fs) ==
    IF fs = << >> THEN << >>
    ELSE insert(sorted(SubSeq(fs, 1, Len(fs) - 1)), fs[Len(fs)])

\* len(features) / len(colours), rounded up
clusters_ceil(n) == (n + Len(colours) - 1) \div Len(colours)

\* line 379
clusters(n) == n \div Len(colours) + 1

\* lines 382-386 with the last point of each geometry for the first
start_points_last(fs) ==
    [i \in 1..Len(fs) |->
        << fs[i].geometry[Len(fs[i].geometry)][1],
           fs[i].geometry[Len(fs[i].geometry)][2] >>]

\* lines 382-386: the first point of each geometry, without its elevation
start_points(fs) ==
    [i \in 1..Len(fs) |-> << fs[i].geometry[1][1], fs[i].geometry[1][2] >>]

\* KMeans without random_state: on the data of an earlier fit, a labelling
\* other than that fit's, each label the next one round
fit_unseeded(fits, X, n) ==
    IF << X, n >> \in DOMAIN fits
    THEN { [i \in 1..Len(X) |-> (fits[<< X, n >>][i] + 1) % n] }
    ELSE [1..Len(X) -> 0..(n - 1)]

\* lines 388-391: KMeans(n_clusters=n, random_state=0).fit(X).labels_ is a
\* library call: some labelling of X with labels 0..n-1, and the labelling
\* of the earlier fit when X and n were fitted before
fit(fits, X, n) ==
    IF << X, n >> \in DOMAIN fits
    THEN { fits[<< X, n >>] }
    ELSE [1..Len(X) -> 0..(n - 1)]

\* lines 394-395
labelled(fs, labels) ==
    [i \in 1..Len(fs) |-> [cluster_label |-> labels[i]] @@ fs[i]]

\* lines 399-407 with the feature's place in the list for colour_idx
colour_idx_place(fs, j) == j - 1

\* lines 399-407 with colour_idx set to 0 once, before the loop over the
\* clusters
colour_idx_running(fs, j) ==
    Cardinality({i \in 1..Len(fs) :
        \/ fs[i].cluster_label < fs[j].cluster_label
        \/ fs[i].cluster_label = fs[j].cluster_label /\ i < j})

\* lines 399-407: colour_idx when the feature at position j is reached, the
\* number of features of its cluster before it in the list
colour_idx(fs, j) ==
    Cardinality({i \in 1..(j - 1) : fs[i].cluster_label = fs[j].cluster_label})

\* lines 399-407
coloured(fs, n) ==
    [j \in 1..Len(fs) |->
        IF fs[j].cluster_label \in 0..(n - 1)
        THEN [colour |-> colours[(colour_idx(fs, j) % Len(colours)) + 1]] @@ fs[j]
        ELSE fs[j]]

\* line 413: json can write every property but an exception object
serializable(fs) == \A i \in 1..Len(fs) : fs[i].place_name # RequestException

\* the GeoJSON file: missing, a feature collection, or cut short by a
\* failed write
Absent == [type |-> "absent"]
Truncated == [type |-> "truncated"]

\* a file that holds valid GeoJSON of another type: a single Feature
Other == [type |-> "Feature"]
FeatureCollection(fs) == [type |-> "FeatureCollection", features |-> fs]

----------------------------------------------------------------------------
(* Actions of create_data around the loop body.                            *)

\* lines 104-145: the collection loaded, the new files listed
Load ==
    /\ pc = "load"
    /\ main_geojson.type \in {"absent", "FeatureCollection"}
    /\ features' = IF main_geojson.type = "FeatureCollection"
                   THEN main_geojson.features
                   ELSE << >>
    /\ geojson_data' = features'
    /\ file_list' = new_files(listdir(orig_gpx_files),
                              existing_track_list(features'))
    /\ processed_count' = 0
    /\ pc' = "next"
    /\ UNCHANGED << epsilon, raw_points, simplified_coords, track_points,
                    cumulative_distances, line_coords, total_distance_km,
                    total_distance_mi, sevenpoint, total_ascent_m,
                    total_descent_m, feature >>
    /\ UNCHANGED << lookup_vars, main_geojson, orig_gpx_files, num_clusters,
                    kmeans, exception, run >>

\* lines 107-120 on a file that is not a FeatureCollection: features is set
\* to [] at line 118, and line 120 reads feature_collection, which the
\* branch never assigned: UnboundLocalError
LoadRaises ==
    /\ pc = "load"
    /\ main_geojson.type \notin {"absent", "FeatureCollection"}
    /\ features' = << >>
    /\ exception' = "UnboundLocalError"
    /\ pc' = "aborted"
    /\ UNCHANGED << epsilon, raw_points, simplified_coords, track_points,
                    cumulative_distances, line_coords, total_distance_km,
                    total_distance_mi, sevenpoint, total_ascent_m,
                    total_descent_m, feature >>
    /\ UNCHANGED << lookup_vars, main_geojson, orig_gpx_files, geojson_data,
                    file_list, processed_count, num_clusters, kmeans, run >>

\* lines 147-159: the next file of file_list parsed
Parse ==
    /\ pc = "next"
    /\ processed_count < Len(file_list)
    /\ raw_points' = points_of(track_segments(
                          gpx_data(orig_gpx_files, file_list[processed_count + 1])))
    /\ pc' = "simplify"
    /\ UNCHANGED << epsilon, simplified_coords, track_points,
                    cumulative_distances, line_coords, total_distance_km,
                    total_distance_mi, sevenpoint, total_ascent_m,
                    total_descent_m, feature >>
    /\ UNCHANGED << lookup_vars, run_vars >>

\* lines 159-343 raise: nothing in create_data catches the exception of a
\* track, which ends the run
Propagate ==
    /\ pc = "raised"
    /\ exception' = IF Len(raw_points) = 0 THEN "IndexError" ELSE "LineString"
    /\ pc' = "aborted"
    /\ UNCHANGED << epsilon, raw_points, simplified_coords, track_points,
                    cumulative_distances, line_coords, total_distance_km,
                    total_distance_mi, sevenpoint, total_ascent_m,
                    total_descent_m, feature >>
    /\ UNCHANGED << lookup_vars, main_geojson, orig_gpx_files, geojson_data,
                    features, file_list, processed_count, num_clusters,
                    kmeans, run >>

\* lines 42-63, called at line 335: one request of the lookup and what
\* follows it
Request ==
    /\ pc = "assembled"
    /\ attempt < tries
    /\ \E ok \in BOOLEAN :
          IF ok
          THEN /\ calls' = Append(calls, "get")
               /\ \E display_name \in DisplayNames :
                     place_name' = address(display_name)
               /\ pc' = "append"
               /\ UNCHANGED attempt
          ELSE LET after == on_failure(attempt)
               IN  /\ calls' = Append(calls, "get failed") \o after.calls
                   /\ IF after.returns
                      THEN /\ place_name' = RequestException
                           /\ pc' = "append"
                           /\ UNCHANGED attempt
                      ELSE /\ attempt' = attempt + 1
                           /\ UNCHANGED << place_name, pc >>
    /\ UNCHANGED << epsilon, raw_points, simplified_coords, track_points,
                    cumulative_distances, line_coords, total_distance_km,
                    total_distance_mi, sevenpoint, total_ascent_m,
                    total_descent_m, feature >>
    /\ UNCHANGED run_vars

\* lines 291-350: the feature built and appended
AppendFeature ==
    /\ pc = "append"
    /\ features' = Append(features,
                          Feature(file_list[processed_count + 1], feature,
                                  track_points, place_name))
    /\ processed_count' = processed_count + 1
    /\ attempt' = 0
    /\ calls' = << >>
    /\ place_name' = None
    /\ pc' = "next"
    /\ UNCHANGED << epsilon, raw_points, simplified_coords, track_points,
                    cumulative_distances, line_coords, total_distance_km,
                    total_distance_mi, sevenpoint, total_ascent_m,
                    total_descent_m, feature >>
    /\ UNCHANGED << main_geojson, orig_gpx_files, geojson_data, file_list,
                    num_clusters, kmeans, exception, run >>

\* lines 352-356, after the last file
Sort ==
    /\ pc = "next"
    /\ processed_count = Len(file_list)
    /\ features' = sorted(features)
    /\ pc' = "cluster"
    /\ UNCHANGED << epsilon, raw_points, simplified_coords, track_points,
                    cumulative_distances, line_coords, total_distance_km,
                    total_distance_mi, sevenpoint, total_ascent_m,
                    total_descent_m, feature >>
    /\ UNCHANGED << lookup_vars, main_geojson, orig_gpx_files, geojson_data,
                    file_list, processed_count, num_clusters, kmeans,
                    exception, run >>

\* lines 379-390 with no feature at all: KMeans.fit raises on an empty array
ClusterRaises ==
    /\ pc = "cluster"
    /\ Len(features) = 0
    /\ num_clusters' = clusters(Len(features))
    /\ exception' = "ValueError"
    /\ pc' = "aborted"
    /\ UNCHANGED << epsilon, raw_points, simplified_coords, track_points,
                    cumulative_distances, line_coords, total_distance_km,
                    total_distance_mi, sevenpoint, total_ascent_m,
                    total_descent_m, feature >>
    /\ UNCHANGED << lookup_vars, main_geojson, orig_gpx_files, geojson_data,
                    features, file_list, processed_count, kmeans, run >>

\* lines 379-395: the cluster count, the fit, the labels
Cluster ==
    /\ pc = "cluster"
    /\ Len(features) > 0
    /\ num_clusters' = clusters(Len(features))
    /\ \E labels \in fit(kmeans, start_points(features), num_clusters') :
          /\ features' = labelled(features, labels)
          /\ kmeans' = (<< start_points(features), num_clusters' >> :> labels)
                           @@ kmeans
    /\ pc' = "colour"
    /\ UNCHANGED << epsilon, raw_points, simplified_coords, track_points,
                    cumulative_distances, line_coords, total_distance_km,
                    total_distance_mi, sevenpoint, total_ascent_m,
                    total_descent_m, feature >>
    /\ UNCHANGED << lookup_vars, main_geojson, orig_gpx_files, geojson_data,
                    file_list, processed_count, exception, run >>

\* lines 397-407
Colour ==
    /\ pc = "colour"
    /\ features' = coloured(features, num_clusters)
    /\ pc' = "write"
    /\ UNCHANGED << epsilon, raw_points, simplified_coords, track_points,
                    cumulative_distances, line_coords, total_distance_km,
                    total_distance_mi, sevenpoint, total_ascent_m,
                    total_descent_m, feature >>
    /\ UNCHANGED << lookup_vars, main_geojson, orig_gpx_files, geojson_data,
                    file_list, processed_count, num_clusters, kmeans,
                    exception, run >>

\* lines 410-423: the collection written and returned
Write ==
    /\ pc = "write"
    /\ serializable(features)
    /\ main_geojson' = FeatureCollection(features)
    /\ pc' = "done"
    /\ UNCHANGED << epsilon, raw_points, simplified_coords, track_points,
                    cumulative_distances, line_coords, total_distance_km,
                    total_distance_mi, sevenpoint, total_ascent_m,
                    total_descent_m, feature >>
    /\ UNCHANGED << lookup_vars, orig_gpx_files, geojson_data, features,
                    file_list, processed_count, num_clusters, kmeans,
                    exception, run >>

\* lines 410-414 with an exception object among the properties: the file is
\* opened for writing, and json raises TypeError part of the way through
WriteRaises ==
    /\ pc = "write"
    /\ ~serializable(features)
    /\ main_geojson' = Truncated
    /\ exception' = "TypeError"
    /\ pc' = "aborted"
    /\ UNCHANGED << epsilon, raw_points, simplified_coords, track_points,
                    cumulative_distances, line_coords, total_distance_km,
                    total_distance_mi, sevenpoint, total_ascent_m,
                    total_descent_m, feature >>
    /\ UNCHANGED << lookup_vars, orig_gpx_files, geojson_data, features,
                    file_list, processed_count, num_clusters, kmeans, run >>

\* create_data called again, the input directory as it was
Rerun ==
    /\ pc = "done"
    /\ run = 1
    /\ run' = 2
    /\ pc' = "load"
    /\ UNCHANGED << epsilon, raw_points, simplified_coords, track_points,
                    cumulative_distances, line_coords, total_distance_km,
                    total_distance_mi, sevenpoint, total_ascent_m,
                    total_descent_m, feature >>
    /\ UNCHANGED << lookup_vars, main_geojson, orig_gpx_files, geojson_data,
                    features, file_list, processed_count, num_clusters,
                    kmeans, exception >>

----------------------------------------------------------------------------
(* Initial states and specifications.                                      *)

\* a parsed track: samples one second apart, elevation changing by slope
RawTrack(c, slope) ==
    [i \in 1..Len(c) |->
        [latitude |-> c[i][1], longitude |-> c[i][2],
         elevation |-> slope * i, time |-> i]]

\* the sequences of n different elements of S
RECURSIVE Arrangements(_, _)
Arrangements(S, n) ==
    IF n = 0 THEN { << >> }
    ELSE UNION { { Append(a, x) : x \in S \ Range(a) } : a \in Arrangements(S, n - 1) }

\* the sequences of at most n different elements of S
UpTo(S, n) == UNION { Arrangements(S, k) : k \in 0..n }

\* a track of n samples that all survive, gap ticks apart
Outing(n, gap) ==
    [i \in 1..n |->
        [latitude |-> i, longitude |-> 3 * (i % 2),
         elevation |-> ElevScale * i, time |-> gap * i]]

\* the tracks drawn, numbered from 0: every length with every gap
Outings == Len(Gaps) * (MaxOuting + 1)
OutingAt(k) == Outing(k \div Len(Gaps), Gaps[(k % Len(Gaps)) + 1])

\* a sample of a track the recording holds after its first
Stray == [latitude |-> 0, longitude |-> 0, elevation |-> 0, time |-> 0]

\* the recording of the outing numbered k, as gpxpy parses it: tracks of
\* segments of samples.  With the short gap, the outing is one segment and
\* a second track follows; with the long gap, the recording was paused
\* after every sample, which is a segment of its own.
RecordingAt(k) ==
    IF k % Len(Gaps) = 0
    THEN << << OutingAt(k) >>, << << Stray >> >> >>
    ELSE << [i \in 1..Len(OutingAt(k)) |-> << OutingAt(k)[i] >>] >>

\* the files the input directory may hold
FileNames == { << name, "gpx" >> : name \in Names } \cup { << 1, "txt" >> }

\* the input directory: the files named in listing, the .gpx files holding
\* tracks that follow one another in the numbering, from shift on
Directory(listing, shift) ==
    [i \in 1..Len(listing) |->
        [filename |-> listing[i],
         tracks |-> IF endswith_gpx(listing[i])
                    THEN RecordingAt((shift + stem(listing[i])) % Outings)
                    ELSE << >>]]

\* a feature as an earlier run wrote it
Stored(name) ==
    [name |-> name,
     geometry |-> << << name, 0, BaseElev, 0 >>, << name, 1, BaseElev, 5 >> >>,
     duration |-> str(1),
     ascent |-> 0,
     descent |-> 0,
     place_name |-> address(<< "Postbridge", "Dartmoor", "Devon", "England" >>),
     cluster_label |-> 0,
     colour |-> colours[1]]

\* the collection of the tracks named in names, in that order
Collection(names) == FeatureCollection([i \in 1..Len(names) |-> Stored(names[i])])

\* create_data called with the file disk and the input directory dir
Called(disk, dir) ==
    /\ main_geojson = disk
    /\ orig_gpx_files = dir
    /\ geojson_data = << >>
    /\ features = << >>
    /\ file_list = << >>
    /\ processed_count = 0
    /\ attempt = 0
    /\ calls = << >>
    /\ place_name = None
    /\ num_clusters = 0
    /\ kmeans = << >>
    /\ exception = ""
    /\ run = 1

\* nothing computed yet for a track
Blank ==
    /\ simplified_coords = NoPoints
    /\ track_points = NoPoints
    /\ cumulative_distances = NoPoints
    /\ line_coords = NoPoints
    /\ total_distance_km = 0
    /\ total_distance_mi = 0
    /\ sevenpoint = NoPoints
    /\ total_ascent_m = 0
    /\ total_descent_m = 0
    /\ feature = NoFeature

\* line 159 reached with the samples raw, and the tolerance eps
Parsed(raw, eps) ==
    /\ pc = "simplify"
    /\ epsilon = eps
    /\ raw_points = raw
    /\ Blank
    /\ Called(Absent, << >>)

\* create_data's loop body on every track of up to MaxRaw samples
Init ==
    \E n \in 0..MaxRaw : \E c \in [1..n -> Grid] : \E slope \in TrackSlopes :
        Parsed(RawTrack(c, slope), Epsilon)

Next ==
    \/ SimplifyRaises
    \/ Simplify
    \/ Select
    \/ Distances
    \/ Smooth
    \/ Climb
    \/ AssembleRaises
    \/ Assemble

Spec == Init /\ [][Next]_vars

\* douglas_peucker on every point sequence and every tolerance 0..MaxEps
InitSimplify ==
    \E n \in 0..MaxRaw : \E c \in [1..n -> Grid] : \E e \in 0..MaxEps :
        Parsed(RawTrack(c, 1), e)

NextSimplify ==
    \/ SimplifyRaises
    \/ Simplify
    \/ Resimplify
    \/ Coarsen

SpecSimplify == InitSimplify /\ [][NextSimplify]_vars

\* a zigzag track of n samples, wide enough that every sample survives,
\* whose elevation changes by step * d[i] from sample i to sample i + 1
Zigzag(n, d, step) ==
    [i \in 1..n |->
        [latitude |-> i, longitude |-> 3 * (i % 2),
         elevation |-> BaseElev + step * SumTo(d, i - 1), time |-> i]]

\* the loop body on zigzag tracks of up to MaxPoints samples, for every
\* elevation series with steps in ElevDeltas
InitMetrics ==
    \E n \in 0..MaxPoints : \E d \in [1..(n - 1) -> ElevDeltas] :
        \E step \in ElevSteps : Parsed(Zigzag(n, d, step), Epsilon)

SpecMetrics == InitMetrics /\ [][Next]_vars

\* create_data from its first line: no file, a file of another GeoJSON
\* type, or a collection of up to MaxLoaded features in any order, with up
\* to MaxFiles files in the input directory; or a collection of up to
\* MaxFeatures features in ascending order, and nothing new to process
InitRun ==
    /\ pc = "load"
    /\ epsilon = Epsilon
    /\ raw_points = NoPoints
    /\ Blank
    /\ \/ \E names \in UpTo(Names, MaxLoaded) :
          \E listing \in UpTo(FileNames, MaxFiles) :
          \E shift \in 0..(Outings - 1) :
          \E disk \in { Collection(names) } \cup
                      (IF names = << >> THEN { Absent, Other } ELSE { }) :
              Called(disk, Directory(listing, shift))
       \/ \E n \in 0..MaxFeatures :
              Called(Collection([i \in 1..n |-> i]), << >>)

NextRun ==
    \/ Load
    \/ LoadRaises
    \/ Parse
    \/ SimplifyRaises
    \/ Simplify
    \/ Select
    \/ Distances
    \/ Smooth
    \/ Climb
    \/ AssembleRaises
    \/ Assemble
    \/ Propagate
    \/ Request
    \/ AppendFeature
    \/ Sort
    \/ ClusterRaises
    \/ Cluster
    \/ Colour
    \/ Write
    \/ WriteRaises
    \/ Rerun

SpecRun == InitRun /\ [][NextRun]_vars

----------------------------------------------------------------------------
(* Properties of douglas_peucker, checked under SpecSimplify.              *)

\* the input of douglas_peucker at line 160
Input == Coords(raw_points)

\* simplified_coords holds douglas_peucker(Input, epsilon)
Simplified == pc \in {"select", "coarsened"}

\* out[i..] can be read off in[j..] in order, each position used at most once
RECURSIVE Embeds(_, _, _, _)
Embeds(out, in, i, j) ==
    IF i > Len(out) THEN TRUE
    ELSE IF j > Len(in) THEN FALSE
    ELSE IF out[i] = in[j] THEN Embeds(out, in, i + 1, j + 1)
    ELSE Embeds(out, in, i, j + 1)

\* out is in at a strictly increasing sequence of positions
IsSubsequence(out, in) == Embeds(out, in, 1, 1)

\* p lies on the straight line through a and b (is a, when a = b)
OnLine(p, a, b) ==
    IF a = b
    THEN p = a
    ELSE (p[1] - a[1]) * (b[2] - a[2]) = (p[2] - a[2]) * (b[1] - a[1])

\* every interior point of points lies on the line through its end points
AllOnLine(points) ==
    \A i \in 2..(Len(points) - 1) : OnLine(points[i], points[1], points[Len(points)])

\* C1: for every tolerance >= 0 and every input of at least 2 points, the
\* result of douglas_peucker starts with the input's first point and ends
\* with the input's last point.
C1_EndPointsKept ==
    (Simplified /\ Len(Input) >= 2) =>
        /\ Len(simplified_coords) >= 2
        /\ simplified_coords[1] = Input[1]
        /\ simplified_coords[Len(simplified_coords)] = Input[Len(Input)]

\* C1 witness: a range was split and an interior point dropped, between
\* two different end points.
C1_Witness ==
    /\ pc = "select"
    /\ Len(Input) >= 4
    /\ Len(simplified_coords) = 3
    /\ Input[1] # Input[Len(Input)]

\* C2: for every tolerance >= 0 and every input of at least 2 points, the
\* result is the input at a strictly increasing sequence of positions (the
\* point shared by the two halves of a split appears once), so it is no
\* longer than the input.
C2_Subsequence ==
    (Simplified /\ Len(Input) >= 2) =>
        /\ IsSubsequence(simplified_coords, Input)
        /\ Len(simplified_coords) <= Len(Input)

\* C2 witness: two splits, every point of a 4-point input kept.
C2_Witness ==
    /\ pc = "select"
    /\ Len(Input) = 4
    /\ Len(simplified_coords) = 4

\* C3: for a fixed input and tolerances e1 <= e2, the result for e2 is no
\* longer than the result for e1: a step that simplifies the same input
\* again with a larger tolerance never lengthens the result.
C3_LengthMonotone ==
    [][(pc' = "coarsened" /\ epsilon <= epsilon' /\ Len(Input) >= 2) =>
          Len(simplified_coords') <= Len(simplified_coords)]_vars

\* C3 witness: the larger tolerance gave a result shorter than tolerance 0
\* gives, and still keeps an interior point.
C3_Witness ==
    /\ pc = "coarsened"
    /\ Len(simplified_coords) >= 3
    /\ Len(simplified_coords) < Len(douglas_peucker(Input, 0))

\* C4: for every input of at least 2 points and every tolerance >= 0,
\* douglas_peucker applied to its own result with the same tolerance
\* returns that result.
C4_Idempotent ==
    [][(pc' = "resimplified" /\ Len(Input) >= 2) =>
          simplified_coords' = simplified_coords]_vars

\* C4 witness: the second pass ran over a result that kept an interior
\* point and dropped another.
C4_Witness ==
    /\ pc = "resimplified"
    /\ Len(simplified_coords) >= 3
    /\ Len(simplified_coords) < Len(Input)

\* C5: when every interior point lies exactly on the line through the first
\* and the last point, the result is [first, last] for any tolerance > 0.
C5_StraightLineCollapses ==
    (Simplified /\ Len(Input) >= 2 /\ epsilon > 0 /\ AllOnLine(Input)) =>
        simplified_coords = << Input[1], Input[Len(Input)] >>

\* C5 witness: two interior points on the line between different end points.
C5_Witness ==
    /\ Simplified
    /\ epsilon > 0
    /\ Len(Input) >= 4
    /\ Input[1] # Input[Len(Input)]
    /\ Input[2] # Input[3]
    /\ AllOnLine(Input)
    /\ Len(simplified_coords) = 2

----------------------------------------------------------------------------
(* Properties of the loop body, checked under Spec.                        *)

\* line 161 has run
Selected == pc \in {"distances", "smooth", "climb", "assemble", "assembled"}

\* lines 165-194 have run
Measured == pc \in {"smooth", "climb", "assemble", "assembled"}

\* C6: the points that survive into the metrics stage are the raw points at
\* a strictly increasing sequence of positions, the first and the last raw
\* point among them, each with the elevation and the timestamp of the raw
\* point it is (a sample is its coordinates, elevation and time).
C6_SurvivorsAreRawSamples ==
    Selected =>
        /\ IsSubsequence(track_points, raw_points)
        /\ Len(track_points) >= 1
        /\ track_points[1] = raw_points[1]
        /\ track_points[Len(track_points)] = raw_points[Len(raw_points)]

\* C6 witness: an interior sample was dropped and another kept.
C6_Witness ==
    /\ pc = "distances"
    /\ Len(track_points) >= 3
    /\ Len(track_points) < Len(raw_points)

\* C7: the cumulative distance series has one value per surviving point,
\* starts at 0 and never decreases.
C7_CumulativeDistance ==
    Measured =>
        /\ Len(cumulative_distances) = Len(track_points)
        /\ cumulative_distances[1] = 0
        /\ \A i \in 2..Len(cumulative_distances) :
              cumulative_distances[i] >= cumulative_distances[i - 1]

\* C7 witness: three surviving points, a longer step before a shorter one.
C7_Witness ==
    /\ pc = "smooth"
    /\ Len(track_points) >= 3
    /\ cumulative_distances[2] > 0
    /\ cumulative_distances[3] > cumulative_distances[2]
    /\ cumulative_distances[3] - cumulative_distances[2] < cumulative_distances[2]

----------------------------------------------------------------------------
(* Properties of the metrics stage, checked under SpecMetrics.             *)

\* lines 198-230 have run
Smoothed ==
    \/ pc \in {"climb", "assemble", "assembled"}
    \/ pc = "raised" /\ Len(track_points) > 0

\* the raw elevation of the surviving point at Python index idx
Elevation(idx) == track_points[idx + 1].elevation

\* the sum of the raw elevations at Python indices lo..hi
RECURSIVE ElevationSum(_, _)
ElevationSum(lo, hi) ==
    IF lo > hi THEN 0 ELSE Elevation(hi) + ElevationSum(lo, hi - 1)

\* the samples on each side of Python index idx that enter its mean
Reach(idx, max_index) ==
    IF idx = 0 \/ idx = max_index THEN 0
    ELSE IF idx = 1 \/ idx = max_index - 1 THEN 1
    ELSE IF idx = 2 \/ idx = max_index - 2 THEN 2
    ELSE 3

\* C8: the smoothed elevation at index i is the raw elevation at the two
\* ends, else the mean of i-1..i+1 next to an end, else the mean of i-2..i+2
\* two from an end, else the mean of i-3..i+3, for every N >= 1; for N = 9,
\* index 4 is the mean of indices 1 through 7.
C8_SmoothingWindows ==
    Smoothed =>
        LET max_index == Len(track_points) - 1
        IN  /\ Len(sevenpoint) = Len(track_points)
            /\ \A idx \in 0..max_index :
                  LET r == Reach(idx, max_index)
                  IN  (2 * r + 1) * sevenpoint[idx + 1]
                          = 105 * ElevationSum(idx - r, idx + r)
            /\ max_index = 8 => 7 * sevenpoint[5] = 105 * ElevationSum(1, 7)

\* C8 witness: 9 surviving points whose elevation changes inside the window
\* of index 4 and differs outside it.
C8_Witness ==
    /\ pc = "climb"
    /\ Len(track_points) = 9
    /\ Elevation(0) # Elevation(1)
    /\ Elevation(3) # Elevation(4)
    /\ Elevation(7) # Elevation(8)

\* the raw elevations of the surviving points never decrease
NonDecreasing ==
    \A i \in 2..Len(track_points) :
        track_points[i - 1].elevation <= track_points[i].elevation

\* the raw elevations of the surviving points increase strictly
Increasing ==
    \A i \in 2..Len(track_points) :
        track_points[i - 1].elevation < track_points[i].elevation

\* the rise from the first to the last surviving point, in elevation units
Rise == track_points[Len(track_points)].elevation - track_points[1].elevation

\* C9 as claimed: at least 7 surviving points of increasing raw elevation
\* give a reported descent of 0 and a reported ascent greater than 0.
C9_AsClaimed ==
    (pc = "assembled" /\ Len(track_points) >= 7 /\ Increasing) =>
        /\ feature.descent = 0
        /\ feature.ascent > 0

\* C9, amended: at least 7 surviving points of increasing (or never
\* decreasing) raw elevation give a reported descent of 0 and a reported
\* ascent that is the rise from the first to the last point in whole
\* metres, the fraction dropped; it is greater than 0 only from a rise of
\* 1 metre on.
C9_MonotoneClimb ==
    (pc = "assembled" /\ Len(track_points) >= 7 /\ NonDecreasing) =>
        /\ feature.descent = 0
        /\ feature.ascent * ElevScale <= Rise
        /\ Rise < (feature.ascent + 1) * ElevScale
        /\ (feature.ascent > 0) = (Rise >= ElevScale)

\* C9 witness: a strictly increasing series of at least 7 points that rises
\* by less than a metre, and is reported with ascent 0.
C9_Witness ==
    /\ pc = "assembled"
    /\ Len(track_points) >= 7
    /\ Increasing
    /\ Rise < ElevScale
    /\ feature.ascent = 0

\* the sum of the positive (sign = 1) or negative (sign = -1) differences
\* of consecutive smoothed elevations up to position n, as a magnitude
RECURSIVE Changes(_, _)
Changes(sign, n) ==
    IF n <= 1 THEN 0
    ELSE LET change == sign * (sevenpoint[n] - sevenpoint[n - 1])
         IN  (IF change > 0 THEN change ELSE 0) + Changes(sign, n - 1)

\* C10: the reported ascent is an integer >= 0, the sum of the positive
\* smoothed differences with its fraction dropped; the reported descent is
\* an integer <= 0, the sum of the negative ones with its fraction dropped
\* (toward zero); both are truncated once, after the sums are complete.
C10_SignsAndTruncation ==
    pc = "assembled" =>
        LET up == Changes(1, Len(sevenpoint))
            down == Changes(-1, Len(sevenpoint))
        IN  /\ feature.ascent >= 0
            /\ feature.ascent * Metre <= up
            /\ up < (feature.ascent + 1) * Metre
            /\ feature.descent <= 0
            /\ (-feature.descent) * Metre <= down
            /\ down < (1 - feature.descent) * Metre

\* C10 witness: a track that climbs and drops by more than a metre each,
\* neither by a whole number of metres.
C10_Witness ==
    /\ pc = "assembled"
    /\ feature.ascent > 0
    /\ feature.descent < 0
    /\ total_ascent_m % Metre # 0
    /\ total_descent_m % Metre # 0

----------------------------------------------------------------------------
(* Properties of the run of create_data, checked under SpecRun.            *)

\* a feature has just been appended (line 346), its track still at hand
Appended == pc = "next" /\ processed_count > 0

\* the seconds a reported duration "H:MM:SS" stands for
Reported(duration) == duration[1] * 3600 + duration[2] * 60 + duration[3]

\* the ticks from the first to the last surviving point of the track
Elapsed == track_points[Len(track_points)].time - track_points[1].time

\* C11 as claimed: the reported duration of every processed track is the
\* time from its first to its last surviving point rounded down to whole
\* seconds, also when that time is a day (86400 seconds) or more.
C11_AsClaimed ==
    Appended =>
        Reported(features[Len(features)].duration) = Elapsed \div TicksPerSecond

\* a track of fewer than 2 surviving points has ended the run
TrackEndedRun == pc = "aborted" /\ exception \in {"IndexError", "LineString"}

\* C12 as claimed: a track that yields fewer than 2 surviving points (a raw
\* track of 0 or 1 points among them) fails alone; it never ends the run,
\* which goes on to the remaining tracks and writes the collection.
C12_AsClaimed == ~TrackEndedRun

\* lines 379-391 have run
Clustered ==
    \/ pc \in {"colour", "write", "done"}
    \/ pc = "aborted" /\ exception \in {"ValueError", "TypeError"}

\* C13: for N features in the collection and the palette of 11 colours, the
\* number of clusters requested is floor(N / 11) + 1.
C13_ClusterCount ==
    Clustered =>
        /\ Len(colours) = 11
        /\ 11 * (num_clusters - 1) <= Len(features)
        /\ Len(features) < 11 * num_clusters

\* C13 witness: 11 features or more, and 2 clusters requested.
C13_Witness ==
    /\ pc = "colour"
    /\ Len(features) >= 11
    /\ num_clusters = 2

\* lines 397-407 have run
Coloured ==
    \/ pc \in {"write", "done"}
    \/ pc = "aborted" /\ exception = "TypeError"

\* the positions of the features with the cluster label of position j
Members(j) ==
    {i \in 1..Len(features) : features[i].cluster_label = features[j].cluster_label}

\* C14: after the colours are assigned, two different features with the
\* same cluster label have the same colour only if their cluster has more
\* than 11 features.
C14_SharedColourNeedsBigCluster ==
    Coloured =>
        \A i, j \in 1..Len(features) :
            (/\ i # j
             /\ features[i].cluster_label = features[j].cluster_label
             /\ features[i].colour = features[j].colour)
                => Cardinality(Members(j)) > 11

\* C14 witness: a cluster of 12 features, two of them with one colour.
C14_Witness ==
    /\ pc = "write"
    /\ \E i, j \in 1..Len(features) :
          /\ i # j
          /\ features[i].cluster_label = features[j].cluster_label
          /\ features[i].colour = features[j].colour
          /\ Cardinality(Members(j)) = 12

\* the members of the cluster of position j before it in the list
Rank(j) == Cardinality({i \in Members(j) : i < j})

\* C15: the k-th (from 0) member of a cluster, in the order of the sorted
\* feature list, has the colour palette[k mod 11]: k starts at 0 in every
\* cluster and follows the list, whatever the other clusters hold.
C15_ColourByRank ==
    Coloured =>
        /\ \A j \in 1..Len(features) :
              features[j].colour = colours[(Rank(j) % 11) + 1]
        /\ \A j \in 2..Len(features) : features[j - 1].name >= features[j].name

\* C15 witness: two clusters that alternate in the list, the second and
\* later cluster starting again at the first colour.
C15_Witness ==
    /\ pc = "write"
    /\ \E i, j, k \in 1..Len(features) :
          /\ i < j
          /\ j < k
          /\ features[i].cluster_label = 0
          /\ features[j].cluster_label = 1
          /\ features[k].cluster_label = 0
          /\ features[j].colour = colours[1]
          /\ features[k].colour = colours[2]

\* the names of the features in fs
NamesOf(fs) == {fs[i].name : i \in 1..Len(fs)}

\* a feature without its cluster label and its colour
Kept(f) ==
    [name |-> f.name, geometry |-> f.geometry, duration |-> f.duration,
     ascent |-> f.ascent, descent |-> f.descent, place_name |-> f.place_name]

\* fs holds the loaded feature g once, all but label and colour as loaded
KeepsLoaded(fs, g) ==
    /\ \E i \in 1..Len(fs) : Kept(fs[i]) = Kept(g)
    /\ Cardinality({i \in 1..Len(fs) : fs[i].name = g.name}) = 1

\* C16: a file named as a feature of the loaded collection is not
\* processed, and that feature's geometry and every property but
\* cluster_label and colour stay as loaded, in the features list all
\* through the run and in the file the run writes.
C16_LoadedFeaturesKept ==
    pc # "load" =>
        /\ \A i \in 1..Len(file_list) :
              stem(file_list[i]) \notin NamesOf(geojson_data)
        /\ \A k \in 1..Len(geojson_data) : KeepsLoaded(features, geojson_data[k])
        /\ pc = "done" =>
              \A k \in 1..Len(geojson_data) :
                  KeepsLoaded(main_geojson.features, geojson_data[k])

\* C16 witness: a first run that found a file named as a loaded feature
\* next to a new file, processed the new one, and wrote the collection with
\* another label or colour on the loaded feature.
C16_Witness ==
    /\ pc = "done"
    /\ run = 1
    /\ Len(file_list) = 1
    /\ \E f \in Range(orig_gpx_files) :
          /\ endswith_gpx(f.filename)
          /\ stem(f.filename) \in NamesOf(geojson_data)
          /\ f.tracks # << >>
    /\ \E k \in 1..Len(geojson_data) : geojson_data[k] \notin Range(features)

\* C17: the collection create_data writes and returns is in descending
\* order of the feature names, whatever the order of the loaded features
\* and of the new files.
C17_WrittenDescending ==
    pc = "done" =>
        /\ main_geojson = FeatureCollection(features)
        /\ \A i, j \in 1..Len(features) :
              i < j => features[i].name >= features[j].name

\* C17 witness: loaded features in ascending order and a new track whose
\* name lies between theirs.
C17_Witness ==
    /\ pc = "done"
    /\ run = 1
    /\ Len(geojson_data) = 2
    /\ geojson_data[1].name < geojson_data[2].name
    /\ Len(features) = 3
    /\ features[2].name \notin NamesOf(geojson_data)

\* C18: a second run of create_data with no new input file, the seed of the
\* clustering fixed, writes the collection the first run wrote: the same
\* features in the same order, each with the same cluster_label and colour.
C18_RerunWritesTheSame ==
    (pc = "done" /\ run = 2 /\ file_list = << >>) =>
        main_geojson = FeatureCollection(geojson_data)

\* C18 witness: the second run has written a collection of two clusters.
C18_Witness ==
    /\ pc = "done"
    /\ run = 2
    /\ file_list = << >>
    /\ \E i, j \in 1..Len(features) :
          features[i].cluster_label # features[j].cluster_label

\* the positions of calls at which a request was sent
Requests == {i \in 1..Len(calls) : calls[i] \in {"get", "get failed"}}

\* the positions of calls at which the lookup waited 30 seconds
Waits == {i \in 1..Len(calls) : calls[i] = "sleep"}

\* C19: a lookup sends at most two requests; the second only after the
\* first failed; it waits once, between the failed first request and the
\* second, and not at all otherwise; nothing follows a successful request.
C19_TwoAttemptsOneWait ==
    /\ Cardinality(Requests) <= 2
    /\ \A i \in Requests : i > 1 => (calls[1] = "get failed" /\ i = 3)
    /\ \A i \in Waits : i = 2 /\ calls[1] = "get failed"
    /\ (Len(calls) >= 1 /\ calls[1] = "get failed") => Waits = {2}
    /\ \A i \in 1..Len(calls) : calls[i] = "get" => i = Len(calls)

\* C19 witness: a failed request, the wait, and a second request, which
\* succeeded.
C19_Witness == calls = << "get failed", "sleep", "get" >>

\* C20 as claimed: when both requests for a track's address failed, the run
\* does not crash for it: the write succeeds, a placeholder stored as the
\* track's place_name.
C20_AsClaimed ==
    (\E i \in 1..Len(features) : features[i].place_name = RequestException) =>
        /\ exception # "TypeError"
        /\ main_geojson # Truncated

\* the loop body is at work on the file file_list[processed_count + 1]
InBody ==
    \/ pc \in {"simplify", "select", "distances", "smooth", "climb",
               "assemble", "assembled", "append", "raised"}
    \/ pc = "aborted" /\ exception \in {"IndexError", "LineString"}

\* the recording of the file at position i of file_list
RecordingOf(i) == gpx_data(orig_gpx_files, file_list[i])

\* the samples of the segments before segment k
RECURSIVE Before(_, _)
Before(segments, k) ==
    IF k <= 1 THEN 0 ELSE Before(segments, k - 1) + Len(segments[k - 1])

\* points holds the samples of every segment, segment after segment
Concatenates(points, segments) ==
    /\ Len(points) = Before(segments, Len(segments) + 1)
    /\ \A k \in 1..Len(segments) : \A i \in 1..Len(segments[k]) :
          points[Before(segments, k) + i] = segments[k][i]

\* the geometry has a sample at the coordinates of p
InGeometry(geometry, p) ==
    \E i \in 1..Len(geometry) :
        geometry[i][1] = p.longitude /\ geometry[i][2] = p.latitude

\* the samples of the tracks of a recording after its first
LaterTracks(recording) ==
    UNION { UNION { Range(recording[t][s]) : s \in 1..Len(recording[t]) } :
              t \in 2..Len(recording) }

\* C21 as claimed: of a recording whose first track has several segments,
\* only the points of the first segment of the first track enter
\* simplification and metrics; no point of a later segment is in the
\* feature's geometry.
C21_AsClaimed ==
    Appended =>
        LET recording == RecordingOf(processed_count)
        IN  \A k \in 2..Len(recording[1]) : \A p \in Range(recording[1][k]) :
                ~InGeometry(features[Len(features)].geometry, p)

\* C21, amended: the points of every segment of the first track, segment
\* after segment, enter simplification and metrics, and the geometry ends
\* with the last point of the last segment; no point of a later track
\* enters, and none is in the geometry.
C21_FirstTrackWhole ==
    /\ InBody =>
          LET recording == RecordingOf(processed_count + 1)
          IN  /\ Concatenates(raw_points, recording[1])
              /\ LaterTracks(recording) \cap Range(raw_points) = { }
    /\ Appended =>
          LET recording == RecordingOf(processed_count)
              geometry == features[Len(features)].geometry
              segments == recording[1]
              last == segments[Len(segments)]
          IN  /\ InGeometry(<< geometry[Len(geometry)] >>, last[Len(last)])
              /\ \A p \in LaterTracks(recording) : ~InGeometry(geometry, p)

\* C21 witness: a feature appended for a first track of three segments.
C21_Witness ==
    /\ Appended
    /\ Len(RecordingOf(processed_count)[1]) = 3
    /\ Len(features[Len(features)].geometry) = 3

\* the cluster label and the colour each feature of fs carries, by name;
\* -1 and "" for a feature that carries none
Marks(fs) ==
    { << fs[i].name,
         IF "cluster_label" \in DOMAIN fs[i] THEN fs[i].cluster_label ELSE -1,
         IF "colour" \in DOMAIN fs[i] THEN fs[i].colour ELSE "" >> :
      i \in 1..Len(fs) }

\* (longitude, latitude) of the first point of each feature of fs
Starts(fs) ==
    [i \in 1..Len(fs) |-> SubSeq(fs[i].geometry[1], 1, 2)]

\* C22: in every run no feature is given a cluster_label or a colour before
\* every new track of the run is appended; the labelling is computed once
\* per run, over the start points of all features, loaded and new; and
\* every feature of the written collection has a cluster_label and a
\* colour of the palette.
C22_ClusteredOnceAfterLoop ==
    [][/\ pc \notin {"load", "cluster", "colour"} =>
             \A m \in Marks(features') \ Marks(features) : m[2] = -1 /\ m[3] = ""
       /\ pc' = "cluster" =>
             /\ pc = "next"
             /\ processed_count = Len(file_list)
             /\ Len(features) = Len(geojson_data) + Len(file_list)
       /\ pc = "cluster" =>
             \/ pc' = "aborted"
             \/ /\ pc' = "colour"
                /\ << Starts(features), num_clusters' >> \in DOMAIN kmeans'
                /\ \A i \in 1..Len(features) :
                      features'[i].cluster_label
                          = kmeans'[<< Starts(features), num_clusters' >>][i]
       /\ pc \in {"colour", "write"} => pc' \in {"write", "done", "aborted"}
       /\ pc = "done" => run' = run + 1
       /\ pc' = "done" =>
             \A i \in 1..Len(main_geojson'.features) :
                 /\ main_geojson'.features[i].cluster_label \in 0..(num_clusters - 1)
                 /\ main_geojson'.features[i].colour \in Range(colours)
      ]_vars

\* C22 witness: a run that loaded a feature, appended two new ones and
\* wrote all three.
C22_Witness ==
    /\ pc = "done"
    /\ run = 1
    /\ Len(geojson_data) = 1
    /\ Len(file_list) = 2
    /\ Len(main_geojson.features) = 3

\* the planar distance from pt to the segment between line_start and
\* line_end, as the fraction num/den of its square: to the nearer end point
\* when the foot of the perpendicular falls outside the segment
SegmentDistance(pt, line_start, line_end) ==
    LET dx == line_end[1] - line_start[1]
        dy == line_end[2] - line_start[2]
        along == (pt[1] - line_start[1]) * dx + (pt[2] - line_start[2]) * dy
        cross == (pt[1] - line_start[1]) * dy - (pt[2] - line_start[2]) * dx
    IN  IF along <= 0
        THEN [num |-> (pt[1] - line_start[1]) * (pt[1] - line_start[1])
                      + (pt[2] - line_start[2]) * (pt[2] - line_start[2]),
              den |-> 1]
        ELSE IF along >= dx * dx + dy * dy
        THEN [num |-> (pt[1] - line_end[1]) * (pt[1] - line_end[1])
                      + (pt[2] - line_end[2]) * (pt[2] - line_end[2]),
              den |-> 1]
        ELSE [num |-> cross * cross, den |-> dx * dx + dy * dy]

SameDistance(d, e) == d.num * e.den = e.num * d.den

\* C23 as the spec states it: for every interior point of a range whose
\* first and last points differ, the distance the simplifier measures is
\* the distance from the point to the segment between the two, also when
\* the foot of the perpendicular falls outside the segment.
C23_AsClaimed ==
    LET points == Coords(raw_points)
    IN  (Len(points) >= 3 /\ points[1] # points[Len(points)]) =>
            \A i \in 2..(Len(points) - 1) :
                SameDistance(
                    perpendicular_distance(points[i], points[1], points[Len(points)]),
                    SegmentDistance(points[i], points[1], points[Len(points)]))

\* C24 as the spec states it: the track has one surviving point per point
\* the simplifier retained, also when the raw track visits a (latitude,
\* longitude) more than once.
C24_AsClaimed ==
    Selected => Len(track_points) = Len(simplified_coords)

\* lines 80-95 by position: the positions of points[lo..hi] (1-based, both
\* ends included) that simplify returns for that range
RECURSIVE retained(_, _, _, _)
retained(points, lo, hi, eps) ==
    LET far == farthest(SubSeq(points, lo, hi), 2, 1, Zero)
    IN  IF Exceeds(far.dmax, eps)
        THEN retained(points, lo, lo + far.index - 1, eps)
                 \cup retained(points, lo + far.index - 1, hi, eps)
        ELSE {lo, hi}

\* the nearest position of kept before i, and after i
NearestBefore(kept, i) == CHOOSE k \in kept : k < i /\ \A j \in kept : j < i => j <= k
NearestAfter(kept, i) == CHOOSE k \in kept : k > i /\ \A j \in kept : j > i => j >= k

\* C25: for every input of at least 2 points, the result of douglas_peucker
\* is the input at its retained positions, and every point at another
\* position is at a computed perpendicular distance of at most epsilon
\* from the line through the nearest retained points before and after it.
C25_DroppedWithinEpsilon ==
    (Simplified /\ Len(Input) >= 2) =>
        LET kept == retained(Input, 1, Len(Input), epsilon)
        IN  /\ Len(simplified_coords) = Cardinality(kept)
            /\ \A k \in kept :
                  simplified_coords[Cardinality({j \in kept : j <= k})] = Input[k]
            /\ \A i \in (1..Len(Input)) \ kept :
                  ~Exceeds(perpendicular_distance(Input[i],
                                                  Input[NearestBefore(kept, i)],
                                                  Input[NearestAfter(kept, i)]),
                           epsilon)

\* C25 witness: of four points one interior point is retained and the
\* other dropped, off the line through its retained neighbours.
C25_Witness ==
    /\ pc = "select"
    /\ Len(Input) = 4
    /\ Len(simplified_coords) = 3
    /\ LET kept == retained(Input, 1, Len(Input), epsilon)
       IN  \E i \in (1..Len(Input)) \ kept :
               perpendicular_distance(Input[i], Input[NearestBefore(kept, i)],
                                      Input[NearestAfter(kept, i)]).num > 0

\* C26 as the spec states it: the new files of a run are processed in
\* reverse alphabetical order of filename, whatever the order of the
\* directory listing.
C26_AsClaimed ==
    \A i, j \in 1..Len(file_list) :
        i < j => stem(file_list[i]) > stem(file_list[j])

\* C27 as the spec states it: when the collection file holds something
\* other than a FeatureCollection, create_data goes on with an empty
\* features list and the files of the input directory, as if there were
\* no file.
C27_AsClaimed ==
    (main_geojson = Other /\ pc # "load") =>
        /\ exception # "UnboundLocalError"
        /\ features = << >>
        /\ file_list = new_files(listdir(orig_gpx_files), << >>)

\* C28 as the code's comment states it: after clustering no cluster has
\* more features than the palette has colours, whatever the number of
\* features and the labelling returned.
C28_AsClaimed ==
    Clustered =>
        \A j \in 1..Len(features) : Cardinality(Members(j)) <= Len(colours)

\* C29: for every track with at least 1 surviving point, the total ascent
\* plus the (negative) total descent, both before truncation, is the raw
\* elevation of the last surviving point minus that of the first.
C29_ClimbTelescopes ==
    (pc \in {"assemble", "assembled"} /\ Len(track_points) >= 1) =>
        total_ascent_m + total_descent_m = 105 * Rise

\* C29 witness: at least 7 surviving points that go both up and down and
\* end at another elevation than they start.
C29_Witness ==
    /\ pc = "assembled"
    /\ Len(track_points) >= 7
    /\ total_ascent_m > 0
    /\ total_descent_m < 0
    /\ Rise # 0

\* the .gpx files of the input directory whose name no feature of fs has
NotYetIn(fs) ==
    { f \in Range(orig_gpx_files) :
        f.filename[2] = "gpx" /\ f.filename[1] \notin NamesOf(fs) }

\* C30: from a loaded collection without two features of one name and a
\* directory of distinctly named .gpx files, the collection on disk never
\* has two features of one name, after one run or more, and a run that
\* returns leaves on disk as many features as it loaded plus the .gpx
\* files whose name was not among them.
C30_NamesStayDistinct ==
    /\ main_geojson.type = "FeatureCollection" =>
          \A i, j \in 1..Len(main_geojson.features) :
              main_geojson.features[i].name = main_geojson.features[j].name
                  => i = j
    /\ pc = "done" =>
          Len(main_geojson.features)
              = Len(geojson_data) + Cardinality(NotYetIn(geojson_data))

\* C30 witness: a second run has returned, that found both files of the
\* directory among the three features the first run left.
C30_Witness ==
    /\ pc = "done"
    /\ run = 2
    /\ Len(orig_gpx_files) = 2
    /\ NotYetIn(geojson_data) = { }
    /\ Len(file_list) = 0
    /\ Len(main_geojson.features) = 3

====
